---- MODULE Spec2Model ----
(***************************************************************************)
(* A model of the numeric-fact extractor (patterns.py, extract.py).        *)
(*                                                                         *)
(* Strings are sequences of one-character strings, so that the regular     *)
(* expressions of patterns.py are modelled by what they match, character   *)
(* by character.  Python's None is the string None; a failed lookup that   *)
(* returns None where a (label, factor) pair is expected is NoScale.       *)
(* Numbers (float values, integer factors) are exact decimals              *)
(* [neg, c, e] = (-1)^neg * c * 10^e, because the factor of Trillion,      *)
(* 10^12, exceeds the integers of the model checker; floating-point        *)
(* rounding is not modelled.                                               *)
(***************************************************************************)
EXTENDS Integers, Sequences, FiniteSets, TLC

VARIABLES
    pc,              \* position of the running entry point
    text,            \* input of is_number / parse_number / extract_inline_numbers
    accepted,        \* result of is_number(text)
    parsed,          \* result of parse_number(text)
    dollar_spans,    \* extract_inline_numbers: spans of the dollar matches
    spans,           \* ghost: span of the match behind each element of results
    raised,          \* an exception left the entry point
    rows,            \* input grid of extract_from_table
    dflt,            \* caller-supplied (multiplier_label, multiplier)
    headers,         \* result of resolve_column_headers(rows)
    row_idx,         \* extract_from_table: index of the next data row
    page_count,      \* extract_from_pages: pages taken from the input so far
    page_num,        \* page["page_number"] of the current page
    boxes,           \* the current page's boxes, sorted by y0
    box_idx,         \* index of the next box of the running loop
    mult_positions,  \* scale declarations of the current page
    section_name,    \* current section of the current page
    box_total,       \* boxes taken from the input so far, over all pages
    page_start,      \* ghost: Len(results) when the current page began
    last_call,       \* ghost: box and scale of the last extract_from_table call
    origin,          \* ghost: the box (or table row) index behind each element of results
    results          \* the records returned (so far)

vars == <<pc, text, accepted, parsed, dollar_spans, spans, raised, rows, dflt,
          headers, row_idx, page_count, page_num, boxes, box_idx, mult_positions,
          section_name, box_total, page_start, last_call, origin, results>>

\* Python's None: as a label, as a str | None (cells, section), as a float | None,
\* as a (label, factor) | None, and as a list | None
None == "None"
NoneStr == <<None>>
NoFloat == [neg |-> FALSE, c |-> 0 - 1, e |-> 0]
NoHeaders == [none |-> TRUE, list |-> <<>>]

(***************************************************************************)
(* Characters                                                              *)
(***************************************************************************)
LowerLetters == <<"a","b","c","d","e","f","g","h","i","j","k","l","m",
                  "n","o","p","q","r","s","t","u","v","w","x","y","z">>
UpperLetters == <<"A","B","C","D","E","F","G","H","I","J","K","L","M",
                  "N","O","P","Q","R","S","T","U","V","W","X","Y","Z">>

Range(f) == {f[i] : i \in DOMAIN f}

LowerOf == [c \in Range(UpperLetters) |-> LowerLetters[CHOOSE i \in 1..26 : UpperLetters[i] = c]]

\* re.IGNORECASE / str.lower on one character
ToLower(c) == IF c \in DOMAIN LowerOf THEN LowerOf[c] ELSE c

LowerStr(s) == [i \in 1..Len(s) |-> ToLower(s[i])]

\* the characters of \d, of \s (those str.strip() removes), of \w and of the
\* group [\d,]+\.?\d* among those of the inputs
DigitChars == {"0","1","2","3","4","5","6","7","8","9"}
SpaceChars == {" ", "\n", "\t"}
WordChars == DigitChars \cup {"_"} \cup Range(LowerLetters) \cup Range(UpperLetters)
NumChars == DigitChars \cup {",", "."}

\* end (exclusive) of the longest run of characters of the class S that starts at i
RunEnd(t, i, S) ==
    CHOOSE j \in i..(Len(t) + 1) :
        /\ \A k \in i..(j - 1) : t[k] \in S
        /\ (j = Len(t) + 1 \/ t[j] \notin S)

\* t[i:j] of Python with 1-based i and exclusive j
Slice(t, i, j) == SubSeq(t, i, j - 1)

CharAt(t, i) == IF i \in 1..Len(t) THEN t[i] ELSE ""

\* str.strip()
Strip(t) ==
    LET nonsp == {k \in 1..Len(t) : t[k] \notin SpaceChars}
    IN IF nonsp = {} THEN <<>>
       ELSE Slice(t, RunEnd(t, 1, SpaceChars), (CHOOSE k \in nonsp : \A m \in nonsp : m <= k) + 1)

\* str.replace(ch, "") for a one-character ch
RECURSIVE Remove(_, _)
Remove(t, ch) ==
    IF t = <<>> THEN <<>>
    ELSE IF Head(t) = ch THEN Remove(Tail(t), ch)
         ELSE <<Head(t)>> \o Remove(Tail(t), ch)

\* str.replace("\n", " ")
NewlinesToSpaces(t) == [i \in 1..Len(t) |-> IF t[i] = "\n" THEN " " ELSE t[i]]

\* ch in t
Contains(t, ch) == \E i \in 1..Len(t) : t[i] = ch

\* " ".join(parts)
RECURSIVE JoinSpace(_)
JoinSpace(parts) ==
    IF parts = <<>> THEN <<>>
    ELSE IF Len(parts) = 1 THEN parts[1]
         ELSE parts[1] \o <<" ">> \o JoinSpace(Tail(parts))

\* index of the first ch in t, which contains one
IndexOf(t, ch) == CHOOSE i \in 1..Len(t) : t[i] = ch /\ \A m \in 1..(i - 1) : t[m] # ch

\* str.split("\n")
RECURSIVE SplitLines(_)
SplitLines(t) ==
    IF ~Contains(t, "\n") THEN <<t>>
    ELSE <<Slice(t, 1, IndexOf(t, "\n"))>> \o SplitLines(Slice(t, IndexOf(t, "\n") + 1, Len(t) + 1))

(***************************************************************************)
(* Exact decimals: [neg, c, e] is (-1)^neg * c * 10^e, with c not a        *)
(* multiple of 10 unless it is 0 (and then e = 0).                         *)
(***************************************************************************)
RECURSIVE Norm(_, _)
Norm(c, e) ==
    IF c = 0 THEN [c |-> 0, e |-> 0]
    ELSE IF c % 10 = 0 THEN Norm(c \div 10, e + 1)
         ELSE [c |-> c, e |-> e]

Dec(neg, c, e) == [neg |-> neg, c |-> Norm(c, e).c, e |-> Norm(c, e).e]

\* -x on a float (the sign of zero flips as well)
Negate(x) == [x EXCEPT !.neg = ~x.neg]

\* value * multiplier
Times(x, y) ==
    IF x.c = 0 \/ y.c = 0
    THEN [neg |-> x.neg # y.neg, c |-> 0, e |-> 0]
    ELSE Dec(x.neg # y.neg, x.c * y.c, x.e + y.e)

One == Dec(FALSE, 1, 0)

DigitValue(ch) == CHOOSE d \in 0..9 : <<"0","1","2","3","4","5","6","7","8","9">>[d + 1] = ch

RECURSIVE DigitsValue(_)
DigitsValue(ds) ==
    IF ds = <<>> THEN 0
    ELSE 10 * DigitsValue(SubSeq(ds, 1, Len(ds) - 1)) + DigitValue(ds[Len(ds)])

\* float(s) for the strings that reach it here (digits, ".", "," and white space):
\* white space is stripped, and s must be digits with at most one "." and at
\* least one digit; anything else is ValueError, returned as NoFloat.
ParseFloat(s) ==
    LET FloatOf(u) ==
            IF /\ Cardinality({i \in 1..Len(u) : u[i] = "."}) <= 1
               /\ \E i \in 1..Len(u) : u[i] \in DigitChars
               /\ \A i \in 1..Len(u) : u[i] \in DigitChars \/ u[i] = "."
            THEN Dec(FALSE, DigitsValue(Remove(u, ".")),
                     IF Contains(u, ".") THEN IndexOf(u, ".") - Len(u) ELSE 0)
            ELSE NoFloat
    IN FloatOf(Strip(s))

(***************************************************************************)
(* patterns.py                                                             *)
(***************************************************************************)
CONTEXT_WINDOW == 30

\* One row of MULTIPLIERS: pat is the source text of the regular expression,
\* alts the lower-case strings it matches in full, then the label and factor.
MULTIPLIERS == <<
    [pat    |-> <<"t","h","o","u","s","a","n","d","s","?","|","k">>,
     alts   |-> {<<"t","h","o","u","s","a","n","d">>,
                 <<"t","h","o","u","s","a","n","d","s">>, <<"k">>},
     label  |-> "Thousand", factor |-> Dec(FALSE, 1, 3)],
    [pat    |-> <<"m","i","l","l","i","o","n","s","?","|","m">>,
     alts   |-> {<<"m","i","l","l","i","o","n">>,
                 <<"m","i","l","l","i","o","n","s">>, <<"m">>},
     label  |-> "Million", factor |-> Dec(FALSE, 1, 6)],
    [pat    |-> <<"b","i","l","l","i","o","n","s","?","|","b">>,
     alts   |-> {<<"b","i","l","l","i","o","n">>,
                 <<"b","i","l","l","i","o","n","s">>, <<"b">>},
     label  |-> "Billion", factor |-> Dec(FALSE, 1, 9)],
    [pat    |-> <<"t","r","i","l","l","i","o","n","s","?","|","t">>,
     alts   |-> {<<"t","r","i","l","l","i","o","n">>,
                 <<"t","r","i","l","l","i","o","n","s">>, <<"t">>},
     label  |-> "Trillion", factor |-> Dec(FALSE, 1, 12)] >>

NoScale == [label |-> None, factor |-> Dec(FALSE, 0, 0)]

\* the alternation "|".join(pat ...) of the rows ms of MULTIPLIERS
RECURSIVE Alternation(_)
Alternation(ms) == IF ms = <<>> THEN {} ELSE Head(ms).alts \cup Alternation(Tail(ms))

\* _mult_alt: the alternation of every row's pattern
mult_alt == Alternation(MULTIPLIERS)

\* the test of the comprehension of _mult_words: len(pat) > 2 on the pattern text
LongPattern(m) == Len(m.pat) > 2

\* _mult_words: the alternation of the rows whose pattern text is longer than 2
mult_words == Alternation(SelectSeq(MULTIPLIERS, LongPattern))

\* the loop of resolve_multiplier over the rows ms: the first row whose pattern
\* matches u in full
RECURSIVE FirstFullMatch(_, _)
FirstFullMatch(ms, u) ==
    IF ms = <<>> THEN NoScale
    ELSE IF u \in Head(ms).alts THEN [label |-> Head(ms).label, factor |-> Head(ms).factor]
         ELSE FirstFullMatch(Tail(ms), u)

\* resolve_multiplier
resolve_multiplier(t) == FirstFullMatch(MULTIPLIERS, LowerStr(Strip(t)))

\* The regular expressions are sequences of items. In every pattern of this
\* module a repetition is followed by a character outside its class, and the
\* scale alternation by a character that is no word character (a word boundary,
\* a closing parenthesis or white space), so a repetition takes its whole run,
\* and the alternation the whole run of word characters.
Lit(c) == [kind |-> "lit", chars |-> {c}, min |-> 1, lang |-> {}, group |-> ""]
Opt(c) == [kind |-> "opt", chars |-> {c}, min |-> 0, lang |-> {}, group |-> ""]
Run(S, min) == [kind |-> "run", chars |-> S, min |-> min, lang |-> {}, group |-> ""]
\* ([\d,]+\.?\d*)
NumberGroup == [kind |-> "num", chars |-> NumChars, min |-> 1, lang |-> {}, group |-> "num"]
\* ({_mult_alt}) or ({_mult_words})
ScaleGroup(lang) == [kind |-> "alt", chars |-> WordChars, min |-> 1, lang |-> lang, group |-> "word"]

\* A match: start inclusive, end exclusive, num and word the texts of the groups.
NoMatch == [ok |-> FALSE, start |-> 0, end |-> 0, num |-> <<>>, word |-> <<>>]

\* whether s is in the language of [\d,]+\.?\d*
InNumberGroup(s) ==
    /\ s # <<>>
    /\ s[1] \in DigitChars \cup {","}
    /\ \A i \in 1..Len(s) : s[i] = "." => \A k \in (i + 1)..Len(s) : s[k] \in DigitChars

\* the end of the item matched at position i (re.IGNORECASE), or 0; j is the
\* end of the run of the item's characters at i
ItemEnd(t, i, item) ==
    LET RunItemEnd(j) ==
            CASE item.kind = "run" -> IF j - i >= item.min THEN j ELSE 0
              [] item.kind = "num" -> IF InNumberGroup(Slice(t, i, j)) THEN j ELSE 0
              [] OTHER -> IF j > i /\ LowerStr(Slice(t, i, j)) \in item.lang THEN j ELSE 0
    IN CASE item.kind = "lit" -> IF ToLower(CharAt(t, i)) \in item.chars THEN i + 1 ELSE 0
         [] item.kind = "opt" -> IF CharAt(t, i) \in item.chars THEN i + 1 ELSE i
         [] OTHER -> RunItemEnd(RunEnd(t, i, item.chars))

\* the match so far, with the text s of the item if the item is a group
Captured(acc, item, s) ==
    IF item.group = "num" THEN [acc EXCEPT !.num = s]
    ELSE IF item.group = "word" THEN [acc EXCEPT !.word = s]
    ELSE acc

\* the items matched one after the other from position i on; j is the end of
\* the first item
RECURSIVE MatchFrom(_, _, _, _)
MatchFrom(items, t, i, acc) ==
    LET MatchOn(j) ==
            IF j = 0 THEN NoMatch
            ELSE MatchFrom(Tail(items), t, j, Captured(acc, Head(items), Slice(t, i, j)))
    IN IF items = <<>> THEN [acc EXCEPT !.ok = TRUE, !.end = i]
       ELSE MatchOn(ItemEnd(t, i, Head(items)))

\* pattern.match(text, i)
MatchAt(items, t, i) == MatchFrom(items, t, i, [NoMatch EXCEPT !.start = i])

\* pattern.search(text, pos): the leftmost match from pos on, or NoMatch
RECURSIVE Search(_, _, _)
Search(items, t, pos) ==
    IF pos > Len(t) THEN NoMatch
    ELSE IF MatchAt(items, t, pos).ok THEN MatchAt(items, t, pos)
         ELSE Search(items, t, pos + 1)

\* pattern.finditer(text): leftmost matches, each search resuming at the end of
\* the match before
RECURSIVE finditer(_, _, _)
finditer(items, t, pos) ==
    LET MatchesFrom(m) == IF ~m.ok THEN <<>> ELSE <<m>> \o finditer(items, t, m.end)
    IN MatchesFrom(Search(items, t, pos))

HEADER_UNIT_PATTERNS == <<
    \* \(\w+\s+in\s+(alt)\)
    <<Lit("("), Run(WordChars, 1), Run(SpaceChars, 1), Lit("i"), Lit("n"),
      Run(SpaceChars, 1), ScaleGroup(mult_alt), Lit(")")>>,
    \* \(\s*\$\s+IN\s+(alt)\)
    <<Lit("("), Run(SpaceChars, 0), Lit("$"), Run(SpaceChars, 1), Lit("i"), Lit("n"),
      Run(SpaceChars, 1), ScaleGroup(mult_alt), Lit(")")>>,
    \* \(\$\s*(alt)\)
    <<Lit("("), Lit("$"), Run(SpaceChars, 0), ScaleGroup(mult_alt), Lit(")")>>,
    \* \(\s*\$\s*(alt)\s*\)
    <<Lit("("), Run(SpaceChars, 0), Lit("$"), Run(SpaceChars, 0), ScaleGroup(mult_alt),
      Run(SpaceChars, 0), Lit(")")>> >>

\* \$\s*([\d,]+\.?\d*)\s*(alt)\b
INLINE_DOLLAR_PATTERN ==
    <<Lit("$"), Run(SpaceChars, 0), NumberGroup, Run(SpaceChars, 0), ScaleGroup(mult_alt)>>

\* ([\d,]+\.?\d*)\s+(words)\b
INLINE_BARE_PATTERN == <<NumberGroup, Run(SpaceChars, 1), ScaleGroup(mult_words)>>

\* ^\s*\(?\s*[\d,]+\.?\d*\s*\)?\s*$
NUMBER_PATTERN ==
    <<Run(SpaceChars, 0), Opt("("), Run(SpaceChars, 0), NumberGroup, Run(SpaceChars, 0),
      Opt(")"), Run(SpaceChars, 0)>>

\* the loop of find_header_multiplier over the patterns ps: the first pattern
\* that matches anywhere in the text gives the match
RECURSIVE FirstSearch(_, _)
FirstSearch(ps, t) ==
    IF ps = <<>> THEN NoMatch
    ELSE IF Search(Head(ps), t, 1).ok THEN Search(Head(ps), t, 1)
         ELSE FirstSearch(Tail(ps), t)

\* find_header_multiplier: resolve_multiplier(match.group(1)), or None without a match
find_header_multiplier(t) ==
    LET GroupScale(m) == IF m.ok THEN resolve_multiplier(m.word) ELSE NoScale
    IN GroupScale(FirstSearch(HEADER_UNIT_PATTERNS, t))

\* is_number: NUMBER_PATTERN matched at the start and up to the end of the text
is_number(t) == MatchAt(NUMBER_PATTERN, t, 1).end = Len(t) + 1

\* the cleaned text of parse_number, the thousands separators left in
Cleaned_KeepCommas(u) == Strip(Remove(Remove(u, "("), ")"))

\* the cleaned text of parse_number (line 89)
Cleaned(u) == Strip(Remove(Remove(Remove(u, "("), ")"), ","))

\* parse_number: u is the stripped text, value what float() returns
parse_number(t) ==
    LET Stripped(u) ==
            LET Signed(value) ==
                    IF value = NoFloat THEN NoFloat
                    ELSE IF Contains(u, "(") /\ Contains(u, ")") THEN Negate(value) ELSE value
            IN IF u = <<>> THEN NoFloat ELSE Signed(ParseFloat(Cleaned(u)))
    IN Stripped(Strip(t))

(***************************************************************************)
(* extract.py                                                              *)
(***************************************************************************)
RECURSIVE Flatten(_)
Flatten(ss) == IF ss = <<>> THEN <<>> ELSE Head(ss) \o Flatten(Tail(ss))

Max(a, b) == IF a >= b THEN a ELSE b
Min(a, b) == IF a <= b THEN a ELSE b

S_inline == <<"i","n","l","i","n","e">>
S_narrative == <<"n","a","r","r","a","t","i","v","e">>
S_table_narrative == <<"t","a","b","l","e"," ">> \o S_narrative

\* _make_result
make_result(value, raw, multiplier_label, multiplier, row_label, column, source_type, section, page, source, context) ==
    [value            |-> value,
     raw              |-> raw,
     multiplier_label |-> multiplier_label,
     multiplier       |-> multiplier,
     adjusted_value   |-> Times(value, multiplier),
     row_label        |-> row_label,
     column           |-> column,
     section          |-> section,
     page             |-> page,
     source           |-> source,
     source_type      |-> source_type,
     context          |-> context]

\* float(num_str) of a match (lines 160 and 165, 181 and 186)
MatchValue(m) == ParseFloat(Remove(m.num, ","))

\* text[start:end].replace("\n", " ").strip() around a match
Context(t, m) ==
    Strip(NewlinesToSpaces(Slice(t, Max(1, m.start - CONTEXT_WINDOW),
                                    Min(Len(t) + 1, m.end + CONTEXT_WINDOW))))

\* the record both loops of extract_inline_numbers append for a match m
InlineRecord(t, m) ==
    LET ScaledRecord(scale) ==
            make_result(MatchValue(m), Strip(Slice(t, m.start, m.end)),
                        scale.label, scale.factor, S_inline, S_narrative, "narrative",
                        NoneStr, None, NoneStr, Context(t, m))
    IN ScaledRecord(resolve_multiplier(m.word))

\* `if not scale: continue` does not skip the match
Resolves(m) == resolve_multiplier(m.word) # NoScale

\* float(num_str) raises ValueError for this match
MatchRaises(m) == MatchValue(m) = NoFloat

\* One loop over a list of matches: a match whose scale does not resolve is
\* skipped, the first match whose number float() rejects raises out of the
\* function, every other match appends a record.
LoopOutcome(t, ms) ==
    LET KeptOutcome(kept) ==
            [raised |-> \E i \in 1..Len(kept) : MatchRaises(kept[i]),
             found  |-> [i \in 1..Len(kept) |-> InlineRecord(t, kept[i])],
             spans  |-> [i \in 1..Len(kept) |-> <<kept[i].start, kept[i].end>>]]
    IN KeptOutcome(SelectSeq(ms, Resolves))

\* first loop of extract_inline_numbers
DollarLoop(t) == LoopOutcome(t, finditer(INLINE_DOLLAR_PATTERN, t, 1))

\* any(ds <= match.start() < de for ds, de in dollar_spans)
InDollarSpan(dspans, m) ==
    \E k \in 1..Len(dspans) : dspans[k][1] <= m.start /\ m.start < dspans[k][2]

\* second loop of extract_inline_numbers, given the spans the first loop kept
BareLoop(t, dspans) ==
    LoopOutcome(t, SelectSeq(finditer(INLINE_BARE_PATTERN, t, 1),
                             LAMBDA m : ~InDollarSpan(dspans, m)))

\* extract_inline_numbers as one call: [raised, found, spans]; d is the outcome
\* of the first loop and b of the second
extract_inline_numbers(t) ==
    LET AfterDollarLoop(d) ==
            LET InlineOutcome(b) ==
                    IF d.raised \/ b.raised
                    THEN [raised |-> TRUE, found |-> <<>>, spans |-> <<>>]
                    ELSE [raised |-> FALSE, found |-> d.found \o b.found,
                          spans |-> d.spans \o b.spans]
            IN InlineOutcome(BareLoop(t, d.spans))
    IN AfterDollarLoop(DollarLoop(t))

\* extract_from_text: {**inline, "section": section, "page": page, "source": source}
\* for each record extract_inline_numbers returned
extract_from_text(t, section, page, source) ==
    LET TextOutcome(r) ==
            [raised |-> r.raised,
             out |-> [i \in 1..Len(r.found) |->
                        [r.found[i] EXCEPT !.section = section, !.page = page, !.source = source]]]
    IN TextOutcome(extract_inline_numbers(t))

\* truth value of a cell (str | None): neither None nor the empty string
Truthy(cell) == cell # NoneStr /\ cell # <<>>

\* cell or ""
OrEmpty(cell) == IF Truthy(cell) THEN cell ELSE <<>>

\* any cell of the row has a recognized number as its first newline-segment
RowHasNumber(row) ==
    \E j \in 1..Len(row) : Truthy(row[j]) /\ is_number(SplitLines(row[j])[1])

\* the first row from index i on (1-based) with a number, or 0
RECURSIVE FirstNumeric(_, _)
FirstNumeric(rs, i) ==
    IF i > Len(rs) THEN 0
    ELSE IF RowHasNumber(rs[i]) THEN i
         ELSE FirstNumeric(rs, i + 1)

\* str(n) for n >= 0
RECURSIVE IntToStr(_)
IntToStr(n) ==
    IF n < 10 THEN <<(<<"0","1","2","3","4","5","6","7","8","9">>)[n + 1]>>
    ELSE IntToStr(n \div 10) \o IntToStr(n % 10)

\* f"col_{j}"
ColName(j) == <<"c","o","l","_">> \o IntToStr(j)

\* " / ".join(parts)
RECURSIVE JoinSlash(_)
JoinSlash(parts) ==
    IF parts = <<>> THEN <<>>
    ELSE IF Len(parts) = 1 THEN parts[1]
         ELSE parts[1] \o <<" ","/"," ">> \o JoinSlash(Tail(parts))

\* row[j] and row[j].strip()
HasText(cell) == Truthy(cell) /\ Strip(cell) # <<>>

\* `last` when the forward fill reaches column j: the normalised text of the
\* nearest cell with text to the left, or None
RECURSIVE LastText(_, _)
LastText(padded, j) ==
    IF j = 1 THEN NoneStr
    ELSE IF HasText(padded[j - 1]) THEN Strip(NewlinesToSpaces(padded[j - 1]))
         ELSE LastText(padded, j - 1)

\* the forward fill of one padded row: a cell with text is kept as it is
ForwardFill(padded) ==
    [j \in 1..Len(padded) |-> IF HasText(padded[j]) THEN padded[j] ELSE LastText(padded, j)]

\* one row of `filled`: padded with None to col_count, then forward-filled
FilledRow(row, col_count) ==
    ForwardFill(row \o [k \in 1..(col_count - Len(row)) |-> NoneStr])

\* col_count
ColCount(rs) ==
    CHOOSE w \in {Len(rs[i]) : i \in 1..Len(rs)} : \A i \in 1..Len(rs) : Len(rs[i]) <= w

\* the parts of column j from row i of `filled` on, given the values seen above
RECURSIVE ColParts(_, _, _, _)
ColParts(filled, j, i, seen) ==
    LET PartsWith(val) ==
            IF val # <<>> /\ val \notin seen
            THEN <<val>> \o ColParts(filled, j, i + 1, seen \cup {val})
            ELSE ColParts(filled, j, i + 1, seen)
    IN IF i > Len(filled) THEN <<>>
       ELSE PartsWith(Strip(OrEmpty(filled[i][j])))

\* the headers of two header rows or more (lines 124-151):
\* " / ".join(parts) if parts else f"col_{j}"
CompositeHeaders(filled, col_count) ==
    LET HeaderName(parts, j) == IF parts # <<>> THEN JoinSlash(parts) ELSE ColName(j - 1)
    IN [j \in 1..col_count |-> HeaderName(ColParts(filled, j, 1, {}), j)]

\* the headers the rows above the data give (lines 118-151)
HeadersOf(header_rows, col_count) ==
    IF Len(header_rows) = 1
    THEN [j \in 1..Len(header_rows[1]) |-> Strip(NewlinesToSpaces(OrEmpty(header_rows[1][j])))]
    ELSE CompositeHeaders([i \in 1..Len(header_rows) |-> FilledRow(header_rows[i], col_count)],
                          col_count)

\* resolve_column_headers. Row indices are 1-based: data_start is the index of
\* the first row with a number, 0 if there is none.
resolve_column_headers(rs) ==
    LET HeadersAt(data_start) ==
            IF data_start = 0 \/ data_start = 1 THEN NoHeaders
            ELSE [none |-> FALSE,
                  list |-> HeadersOf(SubSeq(rs, 1, data_start - 1), ColCount(rs))]
    IN IF rs = <<>> THEN NoHeaders ELSE HeadersAt(FirstNumeric(rs, 1))

\* EffectiveScale applying the default to whole numbers as well
EffectiveScale_NoHeuristic(row_mult, val_text, d) ==
    IF row_mult # NoScale THEN row_mult ELSE d

\* EffectiveScale asking for the decimal point before the row label
EffectiveScale_DecimalFirst(row_mult, val_text, d) ==
    IF Contains(val_text, ".") THEN d
    ELSE IF row_mult # NoScale THEN row_mult
    ELSE [label |-> None, factor |-> One]

\* the scale of one sub-value (lines 287-292): the row label's, else the
\* default d for a text with a decimal point, else none
EffectiveScale(row_mult, val_text, d) ==
    IF row_mult # NoScale THEN row_mult
    ELSE IF Contains(val_text, ".") THEN d
    ELSE [label |-> None, factor |-> One]

\* row_label (line 255)
RowLabel(row) == IF row # <<>> THEN Strip(NewlinesToSpaces(OrEmpty(row[1]))) ELSE <<>>

\* sub_labels (line 268)
SubLabels(row, row_label) ==
    IF row # <<>> /\ Contains(OrEmpty(row[1]), "\n") THEN SplitLines(row_label) ELSE <<row_label>>

\* sub_label (line 281)
SubLabel(sub_labels, vi) ==
    IF vi <= Len(sub_labels) THEN Strip(sub_labels[vi]) ELSE Strip(sub_labels[Len(sub_labels)])

\* col_header (line 280); col is the 1-based column, col - 1 the col_idx of the code
ColHeader(hdrs, col) == IF col <= Len(hdrs) THEN hdrs[col] ELSE ColName(col - 1)

\* lines 272-300: the record of one stripped sub-value, if it is a number that
\* parse_number does not fail on
ValueRecord(val_text, row_mult, d, sub_label, col_header, section, page, source) ==
    LET TableRecord(parsed_val, effective) ==
            IF parsed_val = NoFloat THEN <<>>
            ELSE <<make_result(parsed_val, val_text, effective.label, effective.factor,
                               sub_label, col_header, "table", section, page, source, NoneStr)>>
    IN IF ~is_number(val_text) THEN <<>>
       ELSE TableRecord(parse_number(val_text), EffectiveScale(row_mult, val_text, d))

\* CellRecords looking at the first sub-value of the cell only
CellRecords_FirstOnly(sub_values, row_mult, d, sub_labels, col_header, section, page, source) ==
    ValueRecord(Strip(sub_values[1]), row_mult, d, SubLabel(sub_labels, 1),
                col_header, section, page, source)

\* lines 271-300: the records of the sub-values of one cell
CellRecords(sub_values, row_mult, d, sub_labels, col_header, section, page, source) ==
    Flatten([vi \in 1..Len(sub_values) |->
                ValueRecord(Strip(sub_values[vi]), row_mult, d, SubLabel(sub_labels, vi),
                            col_header, section, page, source)])

\* the records extract_from_table makes of one data row (the body of its first
\* loop, lines 254-300)
RowRecords(row, hdrs, d, section, page, source) ==
    LET RowWithLabel(row_label) ==
            LET LabelledRow(row_mult, sub_labels) ==
                    Flatten([k \in 1..(Len(row) - 1) |->
                                IF ~Truthy(row[k + 1]) THEN <<>>
                                ELSE CellRecords(SplitLines(row[k + 1]), row_mult, d, sub_labels,
                                                 ColHeader(hdrs, k + 1), section, page, source)])
            IN LabelledRow(find_header_multiplier(row_label), SubLabels(row, row_label))
    IN RowWithLabel(RowLabel(row))

\* data_start of extract_from_table's own detection (1-based): the first row
\* after row 0 with a number (the loop does not stop at row 0), else row 0
TableDataStart(rs) == Max(1, FirstNumeric(rs, 2))

\* the records of one cell's inline numbers, as the last loop appends them
Retagged(found, section, page, source) ==
    [n \in 1..Len(found) |->
        [found[n] EXCEPT !.row_label = S_inline,
                         !.column = S_table_narrative,
                         !.source_type = "table_narrative",
                         !.section = section,
                         !.page = page,
                         !.source = source]]

\* the last loop of extract_from_table: every cell scanned for inline numbers;
\* scans is what extract_inline_numbers returned for each cell
InlineScan(rs, section, page, source) ==
    LET ScanOutcome(scans) ==
            [raised |-> \E i \in 1..Len(scans) : scans[i].raised,
             out |-> Flatten([i \in 1..Len(scans) |->
                                Retagged(scans[i].found, section, page, source)])]
        CellScans(cells) == [i \in 1..Len(cells) |-> extract_inline_numbers(cells[i])]
    IN ScanOutcome(CellScans(SelectSeq(Flatten(rs), Truthy)))

\* the first loop of extract_from_table
DataRows(rs, data_start, hdrs, d, section, page, source) ==
    Flatten([i \in 1..(Len(rs) - data_start + 1) |->
                RowRecords(rs[data_start + i - 1], hdrs, d, section, page, source)])

\* extract_from_table: [raised, out]. d is (multiplier_label, multiplier).
\* The records of both loops, unless the last loop raised.
extract_from_table(rs, d, section, page, source) ==
    LET TableOutcome(table, inline) ==
            IF inline.raised THEN [raised |-> TRUE, out |-> <<>>]
            ELSE [raised |-> FALSE, out |-> table \o inline.out]
        TableWithHeaders(hdrs) ==
            IF hdrs.none \/ hdrs.list = <<>> THEN [raised |-> FALSE, out |-> <<>>]
            ELSE TableOutcome(DataRows(rs, TableDataStart(rs), hdrs.list, d, section, page, source),
                              InlineScan(rs, section, page, source))
    IN TableWithHeaders(resolve_column_headers(rs))

\* mult_for_y returning at the first qualifying element instead of the last
mult_for_y_First(positions, y) ==
    LET qualifying == {i \in 1..Len(positions) : positions[i].y <= y}
        First(i) == [label |-> positions[i].label, factor |-> positions[i].factor]
    IN IF qualifying = {} THEN NoScale
       ELSE First(CHOOSE i \in qualifying : \A k \in qualifying : i <= k)

\* mult_for_y: the last element of the list at or above y, else None
RECURSIVE mult_for_y(_, _)
mult_for_y(positions, y) ==
    IF positions = <<>> THEN NoScale
    ELSE IF positions[Len(positions)].y <= y
         THEN [label |-> positions[Len(positions)].label,
               factor |-> positions[Len(positions)].factor]
         ELSE mult_for_y(SubSeq(positions, 1, Len(positions) - 1), y)

\* A box is [boxclass, y0, textlines, table]: textlines is the list of its
\* spans' texts, table is [present, extract] (present: the box has a "table").
NoTable == [present |-> FALSE, extract |-> <<>>]

\* get_box_text
get_box_text(box) ==
    JoinSpace(box.textlines \o
              (IF box.table.present THEN SelectSeq(Flatten(box.table.extract), Truthy) ELSE <<>>))

\* sorted(boxes, key=y0): stable; x goes after the elements of the sorted front
\* that are not below it
RECURSIVE SortByY0(_)
SortByY0(bs) ==
    LET InsertByY0(front, x) ==
            LET k == Cardinality({i \in 1..Len(front) : front[i].y0 <= x.y0})
            IN SubSeq(front, 1, k) \o <<x>> \o SubSeq(front, k + 1, Len(front))
    IN IF bs = <<>> THEN <<>>
       ELSE InsertByY0(SortByY0(SubSeq(bs, 1, Len(bs) - 1)), bs[Len(bs)])

\* the first loop over a page's sorted boxes (lines 349-356): the declarations
\* of non-table boxes
ScanDeclarations(bs) ==
    LET Declaration(b, scale) ==
            IF b.boxclass = "table" \/ scale = NoScale THEN <<>>
            ELSE <<[y |-> b.y0, label |-> scale.label, factor |-> scale.factor]>>
    IN Flatten([i \in 1..Len(bs) |->
                   Declaration(bs[i], find_header_multiplier(get_box_text(bs[i])))])

\* pattern.sub("", text): every match of the pattern removed
RECURSIVE SubPattern(_, _, _)
SubPattern(items, t, pos) ==
    LET SubAfter(m) ==
            IF ~m.ok THEN Slice(t, pos, Len(t) + 1)
            ELSE Slice(t, pos, m.start) \o SubPattern(items, t, m.end)
    IN SubAfter(Search(items, t, pos))

\* the text of a section header with every pattern of ps removed in turn
RECURSIVE StripUnits(_, _)
StripUnits(ps, t) ==
    IF ps = <<>> THEN t ELSE StripUnits(Tail(ps), SubPattern(Head(ps), t, 1))

\* has_data and table_mult of a table box
HasData(rs) == \E i \in 1..Len(rs) : RowHasNumber(rs[i])
TableMult(rs) == find_header_multiplier(JoinSpace(SelectSeq(Flatten(rs), Truthy)))

(***************************************************************************)
(* Bounds and inputs                                                       *)
(***************************************************************************)
MaxPages == 2        \* pages of a document
MaxBoxes == 3        \* boxes of a document, over all its pages
MaxY == 3            \* vertical positions are 1..MaxY

\* the texts the inputs are made of
Sample ==
    [Item |-> <<"I","t","e","m">>,
     FY |-> <<"F","Y">>,
     Jets |-> <<"J","e","t","s">>,
     Fund |-> <<"F","u","n","d">>,
     Budget |-> <<"B","u","d","g","e","t">>,
     DollarsInMillions |-> <<"(","D","o","l","l","a","r","s"," ","i","n"," ","M","i","l","l","i","o","n","s",")">>,
     HoursInThousands |-> <<"(","H","o","u","r","s"," ","i","n"," ","T","h","o","u","s","a","n","d","s",")">>,
     UnitK |-> <<"(","$","K",")">>,
     UnitB |-> <<"(","$","B",")">>,
     CashT |-> <<"C","a","s","h"," ","(","$","T",")">>,
     Usd2b |-> <<"$","2"," ","b">>,
     N5p5 |-> <<"5",".","5">>,
     EqTot |-> <<"E","q","\n","T","o","t">>,
     million |-> <<"m","i","l","l","i","o","n">>]

TextBox(cls, t) == [boxclass |-> cls, textlines |-> <<t>>, table |-> NoTable]
TableBox(rs) == [boxclass |-> "table", textlines |-> <<>>, table |-> [present |-> TRUE, extract |-> rs]]

\* the boxes a page is made of, without their positions
BoxMenu == {
    TextBox("text", Sample.DollarsInMillions),             \* a declaration in running text
    TextBox("text", Sample.Usd2b),                            \* a narrative figure
    TextBox("section-header", Sample.Budget),
    TextBox("section-header", Sample.UnitK),               \* a header that is only a declaration
    TextBox("section-header", Sample.CashT),               \* a header with a name and a declaration
    TextBox("picture", Sample.HoursInThousands),           \* a class the second loop ignores
    TableBox(<< <<Sample.Fund, Sample.UnitB>> >>),              \* a banner table
    TableBox(<< <<Sample.Item, Sample.FY>>, <<Sample.Jets, Sample.N5p5>> >>),   \* a data table without a scale
    TableBox(<< <<Sample.CashT, Sample.FY>>, <<Sample.Jets, Sample.N5p5>> >>),  \* a data table with its own scale
    TableBox(<<>>) }                                  \* a table box with an empty grid

PositionedBoxes == {[boxclass |-> b.boxclass, y0 |-> y, textlines |-> b.textlines, table |-> b.table] :
                       b \in BoxMenu, y \in 1..MaxY}

RECURSIVE SeqsUpTo(_, _)
SeqsUpTo(S, n) ==
    IF n = 0 THEN {<<>>}
    ELSE LET shorter == SeqsUpTo(S, n - 1)
         IN shorter \cup {Append(q, x) : q \in {r \in shorter : Len(r) = n - 1}, x \in S}

S_source == <<"x",".","p","d","f">>

(***************************************************************************)
(* extract_from_pages as a walk over pages and boxes                       *)
(***************************************************************************)
numVars  == <<accepted, parsed>>
textVars == <<text, dollar_spans, spans>>
tableVars == <<rows, dflt, headers, row_idx>>
pageVars == <<page_count, page_num, boxes, box_idx, mult_positions, section_name,
              box_total, page_start, last_call, origin>>

NoCall == [idx |-> 0, label |-> None, factor |-> One]

IdleNum == accepted = FALSE /\ parsed = NoFloat
IdleText == text = <<>> /\ dollar_spans = <<>> /\ spans = <<>>
IdleTable == rows = <<>> /\ dflt = NoScale /\ headers = NoHeaders /\ row_idx = 0
IdlePages ==
    /\ page_count = 0 /\ page_num = 0 /\ boxes = <<>> /\ box_idx = 0
    /\ mult_positions = <<>> /\ section_name = NoneStr /\ box_total = 0
    /\ page_start = 0 /\ last_call = NoCall /\ origin = <<>>

Init ==
    /\ pc = "next_page" /\ raised = FALSE /\ results = <<>>
    /\ IdleNum /\ IdleText /\ IdleTable /\ IdlePages

\* StartPage with the two resets left out
StartPage_NoReset ==
    /\ pc = "next_page" /\ page_count < MaxPages
    /\ \E bs \in SeqsUpTo(PositionedBoxes, MaxBoxes - box_total) \ {<<>>} :
          /\ boxes' = SortByY0(bs)
          /\ box_total' = box_total + Len(bs)
    /\ page_count' = page_count + 1
    /\ page_num' = page_count + 1
    /\ page_start' = Len(results)
    /\ last_call' = NoCall
    /\ box_idx' = 1
    /\ pc' = "scan"
    /\ UNCHANGED <<raised, results, origin, mult_positions, section_name,
                   numVars, textVars, tableVars>>

\* `for page in pages`: the next page of the input (pages are numbered in input
\* order and hold at least one box); its boxes are sorted and the page's scale declarations and section
\* start empty (lines 341-348)
StartPage ==
    /\ pc = "next_page" /\ page_count < MaxPages
    /\ \E bs \in SeqsUpTo(PositionedBoxes, MaxBoxes - box_total) \ {<<>>} :
          /\ boxes' = SortByY0(bs)
          /\ box_total' = box_total + Len(bs)
    /\ page_count' = page_count + 1
    /\ page_num' = page_count + 1
    /\ mult_positions' = <<>>
    /\ section_name' = NoneStr
    /\ page_start' = Len(results)
    /\ last_call' = NoCall
    /\ box_idx' = 1
    /\ pc' = "scan"
    /\ UNCHANGED <<raised, results, origin, numVars, textVars, tableVars>>

\* the first loop over the boxes (lines 349-356)
FindDeclarations ==
    /\ pc = "scan"
    /\ mult_positions' = mult_positions \o ScanDeclarations(boxes)
    /\ pc' = "walk"
    /\ UNCHANGED <<raised, results, page_count, page_num, boxes, box_idx, section_name,
                   box_total, page_start, last_call, origin, numVars, textVars, tableVars>>

CurrentBox == boxes[box_idx]
InWalk == pc = "walk" /\ box_idx <= Len(boxes)

\* ProcessSectionHeader taking every header's text as the section
ProcessSectionHeader_Always ==
    /\ pc = "walk" /\ box_idx <= Len(boxes)
    /\ boxes[box_idx].boxclass = "section-header"
    /\ section_name' = get_box_text(boxes[box_idx])
    /\ box_idx' = box_idx + 1
    /\ UNCHANGED <<pc, raised, results, page_count, page_num, boxes, mult_positions,
                   box_total, page_start, last_call, origin, numVars, textVars, tableVars>>

\* second loop, a section-header box (lines 361-368)
ProcessSectionHeader ==
    /\ InWalk /\ CurrentBox.boxclass = "section-header"
    /\ LET t == get_box_text(CurrentBox)
       IN section_name' = IF find_header_multiplier(t) = NoScale \/ Strip(StripUnits(HEADER_UNIT_PATTERNS, t)) # <<>>
                          THEN t ELSE section_name
    /\ box_idx' = box_idx + 1
    /\ UNCHANGED <<pc, raised, results, page_count, page_num, boxes, mult_positions,
                   box_total, page_start, last_call, origin, numVars, textVars, tableVars>>

\* second loop, a text box (lines 371-375)
ProcessText ==
    /\ InWalk /\ CurrentBox.boxclass = "text"
    /\ LET r == extract_from_text(get_box_text(CurrentBox), section_name, page_num, S_source)
       IN IF r.raised
          THEN /\ raised' = TRUE /\ pc' = "raised"
               /\ UNCHANGED <<results, origin, box_idx>>
          ELSE /\ results' = results \o r.out
               /\ origin' = origin \o [i \in 1..Len(r.out) |-> box_idx]
               /\ box_idx' = box_idx + 1
               /\ UNCHANGED <<pc, raised>>
    /\ UNCHANGED <<page_count, page_num, boxes, mult_positions, section_name,
                   box_total, page_start, last_call, numVars, textVars, tableVars>>

\* a table box the second loop passes over: no "table", or an empty grid (lines 377-381)
SkipTable ==
    /\ InWalk /\ CurrentBox.boxclass = "table"
    /\ ~CurrentBox.table.present \/ CurrentBox.table.extract = <<>>
    /\ box_idx' = box_idx + 1
    /\ UNCHANGED <<pc, raised, results, page_count, page_num, boxes, mult_positions, section_name,
                   box_total, page_start, last_call, origin, numVars, textVars, tableVars>>

IsGrid(b) == b.boxclass = "table" /\ b.table.present /\ b.table.extract # <<>>
IsBanner(b) == IsGrid(b) /\ TableMult(b.table.extract) # NoScale /\ ~HasData(b.table.extract)

\* PromoteBanner without the append: the banner is passed over
PromoteBanner_NoAppend ==
    /\ pc = "walk" /\ box_idx <= Len(boxes)
    /\ boxes[box_idx].boxclass = "table" /\ boxes[box_idx].table.present
    /\ boxes[box_idx].table.extract # <<>>
    /\ TableMult(boxes[box_idx].table.extract) # NoScale /\ ~HasData(boxes[box_idx].table.extract)
    /\ box_idx' = box_idx + 1
    /\ UNCHANGED <<pc, raised, results, page_count, page_num, boxes, mult_positions, section_name,
                   box_total, page_start, last_call, origin, numVars, textVars, tableVars>>

\* second loop, a banner table: its scale is promoted (lines 393-398)
PromoteBanner ==
    /\ InWalk /\ IsBanner(CurrentBox)
    /\ LET m == TableMult(CurrentBox.table.extract)
       IN mult_positions' = Append(mult_positions,
                                   [y |-> CurrentBox.y0, label |-> m.label, factor |-> m.factor])
    /\ box_idx' = box_idx + 1
    /\ UNCHANGED <<pc, raised, results, page_count, page_num, boxes, section_name,
                   box_total, page_start, last_call, origin, numVars, textVars, tableVars>>

\* the scale a table that is no banner is extracted with (lines 402-409)
TableScale(b, positions) ==
    IF TableMult(b.table.extract) # NoScale THEN TableMult(b.table.extract)
    ELSE IF mult_for_y(positions, b.y0) # NoScale THEN mult_for_y(positions, b.y0)
    ELSE [label |-> None, factor |-> One]

\* ProcessTable adding the table's own scale to the page's declarations
ProcessTable_Promote ==
    /\ pc = "walk" /\ box_idx <= Len(boxes)
    /\ IsGrid(boxes[box_idx]) /\ ~IsBanner(boxes[box_idx])
    /\ LET scale == TableScale(boxes[box_idx], mult_positions)
           own == TableMult(boxes[box_idx].table.extract)
           r == extract_from_table(boxes[box_idx].table.extract, scale, section_name, page_num, S_source)
       IN /\ last_call' = [idx |-> box_idx, label |-> scale.label, factor |-> scale.factor]
          /\ mult_positions' =
                IF own = NoScale THEN mult_positions
                ELSE Append(mult_positions,
                            [y |-> boxes[box_idx].y0, label |-> own.label, factor |-> own.factor])
          /\ IF r.raised
             THEN /\ raised' = TRUE /\ pc' = "raised"
                  /\ UNCHANGED <<results, origin, box_idx>>
             ELSE /\ results' = results \o r.out
                  /\ origin' = origin \o [i \in 1..Len(r.out) |-> box_idx]
                  /\ box_idx' = box_idx + 1
                  /\ UNCHANGED <<pc, raised>>
    /\ UNCHANGED <<page_count, page_num, boxes, section_name,
                   box_total, page_start, numVars, textVars, tableVars>>

\* second loop, any other table with a grid (lines 400-424)
ProcessTable ==
    /\ InWalk /\ IsGrid(CurrentBox) /\ ~IsBanner(CurrentBox)
    /\ LET scale == TableScale(CurrentBox, mult_positions)
           r == extract_from_table(CurrentBox.table.extract, scale, section_name, page_num, S_source)
       IN /\ last_call' = [idx |-> box_idx, label |-> scale.label, factor |-> scale.factor]
          /\ IF r.raised
             THEN /\ raised' = TRUE /\ pc' = "raised"
                  /\ UNCHANGED <<results, origin, box_idx>>
             ELSE /\ results' = results \o r.out
                  /\ origin' = origin \o [i \in 1..Len(r.out) |-> box_idx]
                  /\ box_idx' = box_idx + 1
                  /\ UNCHANGED <<pc, raised>>
    /\ UNCHANGED <<page_count, page_num, boxes, mult_positions, section_name,
                   box_total, page_start, numVars, textVars, tableVars>>

\* second loop, a box of any other class
IgnoreBox ==
    /\ InWalk /\ CurrentBox.boxclass \notin {"section-header", "text", "table"}
    /\ box_idx' = box_idx + 1
    /\ UNCHANGED <<pc, raised, results, page_count, page_num, boxes, mult_positions, section_name,
                   box_total, page_start, last_call, origin, numVars, textVars, tableVars>>

\* the page's boxes are exhausted
EndPage ==
    /\ pc = "walk" /\ box_idx > Len(boxes)
    /\ pc' = "next_page"
    /\ UNCHANGED <<raised, results, pageVars, numVars, textVars, tableVars>>

\* the pages are exhausted: return results
Return ==
    /\ pc = "next_page"
    /\ pc' = "done"
    /\ UNCHANGED <<raised, results, pageVars, numVars, textVars, tableVars>>

Next ==
    \/ StartPage \/ FindDeclarations
    \/ ProcessSectionHeader \/ ProcessText \/ SkipTable \/ PromoteBanner \/ ProcessTable
    \/ IgnoreBox \/ EndPage \/ Return

Spec == Init /\ [][Next]_vars

(***************************************************************************)
(* Properties of extract_from_pages (specification Spec)                   *)
(***************************************************************************)
\* the page-level scale declaration a box of the current page makes, if any:
\* a non-table box by its text, a banner table by its cells
DeclaredScale(b) ==
    IF b.boxclass # "table" THEN find_header_multiplier(get_box_text(b))
    ELSE IF IsBanner(b) THEN TableMult(b.table.extract)
    ELSE NoScale

\* a data table with no scale declaration in its own cells
IsPlainDataTable(b) ==
    IsGrid(b) /\ HasData(b.table.extract) /\ TableMult(b.table.extract) = NoScale

\* the last extract_from_table call of the current page was for a plain data table
PlainTableExtracted ==
    /\ pc \in {"walk", "next_page", "done"}
    /\ last_call.idx # 0
    /\ IsPlainDataTable(boxes[last_call.idx])

LastScale == [label |-> last_call.label, factor |-> last_call.factor]

\* the scales of the declarations among the boxes `among` with the greatest position
NearestScales(among) ==
    {DeclaredScale(boxes[i]) : i \in {k \in among : \A m \in among : boxes[m].y0 <= boxes[k].y0}}

\* C1: a data table with no scale of its own is extracted with the scale of the
\* declaration (of a non-table box or a banner table of its page) that has the
\* greatest position at or above the table's, and with (none, 1) if there is no
\* such declaration. A declaration at the table's own position counts as at or
\* above it; the formula accepts both readings of a tie (with or without the
\* declarations that share the table's position but follow it in vertical order).
C1_NearestAboveDeclaration ==
    PlainTableExtracted =>
        LET j == last_call.idx
            atOrAbove == {i \in 1..Len(boxes) :
                            DeclaredScale(boxes[i]) # NoScale /\ boxes[i].y0 <= boxes[j].y0}
            before == {i \in atOrAbove : i < j}
            Ok(among) == IF among = {} THEN LastScale = [label |-> None, factor |-> One]
                         ELSE LastScale \in NearestScales(among)
        IN Ok(atOrAbove) \/ Ok(before)

\* the banner at index i is followed by the plain data table at index j, the
\* next one below it, and no other declaration lies between the two positions
BannerFeeds(i, j) ==
    /\ i < j
    /\ IsBanner(boxes[i])
    /\ IsPlainDataTable(boxes[j])
    /\ \A k \in (i + 1)..(j - 1) : ~IsPlainDataTable(boxes[k])
    /\ \A k \in 1..Len(boxes) :
          (k # i /\ DeclaredScale(boxes[k]) # NoScale)
              => ~(boxes[i].y0 <= boxes[k].y0 /\ boxes[k].y0 <= boxes[j].y0)

\* C2: a banner table (a scale declaration in its cells, no number) emits no
\* record, and the next data table below it that has no scale of its own, with
\* no other declaration positioned between the two, is extracted with the
\* banner's scale as its default.
C2_BannerPromotion ==
    /\ pc \in {"walk", "next_page", "done"} =>
          \A n \in (page_start + 1)..Len(results) : ~IsBanner(boxes[origin[n]])
    /\ PlainTableExtracted =>
          \A i \in 1..Len(boxes) :
              BannerFeeds(i, last_call.idx) => LastScale = TableMult(boxes[i].table.extract)

\* C2 witness: a plain data table was just extracted with the scale of the banner above it
C2_Witness ==
    /\ PlainTableExtracted
    /\ \E i \in 1..Len(boxes) : BannerFeeds(i, last_call.idx)
    /\ last_call.label = "Billion"
    /\ \E n \in (page_start + 1)..Len(results) :
          results[n].source_type = "table" /\ results[n].multiplier_label = "Billion"

\* the labels a table record of the current page can owe to the page itself:
\* declarations of its boxes and scales in the cells of its tables
PageLabels ==
    {DeclaredScale(boxes[i]).label : i \in 1..Len(boxes)}
        \cup {TableMult(boxes[i].table.extract).label : i \in {k \in 1..Len(boxes) : IsGrid(boxes[k])}}
        \cup {None}

\* the section names the current page can give: its section headers' texts, or None
PageSections ==
    {get_box_text(boxes[i]) : i \in {k \in 1..Len(boxes) : boxes[k].boxclass = "section-header"}}
        \cup {NoneStr}

\* C3: the declaration list and the section are reset at the start of every
\* page: while a page is processed they hold only declarations and headers of
\* that page's own boxes, and every record of the page has a section and a
\* table scale that come from the page itself, whatever pages went before.
C3_PageIsolation ==
    /\ pc = "scan" => mult_positions = <<>> /\ section_name = NoneStr
    /\ pc \in {"scan", "walk"} =>
          /\ \A e \in Range(mult_positions) :
                \E i \in 1..Len(boxes) :
                    /\ boxes[i].y0 = e.y
                    /\ DeclaredScale(boxes[i]) = [label |-> e.label, factor |-> e.factor]
          /\ section_name \in PageSections
          /\ \A n \in (page_start + 1)..Len(results) :
                /\ results[n].section \in PageSections
                /\ results[n].page = page_num
                /\ results[n].source_type = "table" => results[n].multiplier_label \in PageLabels

\* C3 witness: the second page yields an unscaled table record and a record
\* without section although the first page declared a scale and a section
C3_Witness ==
    /\ pc = "walk" /\ page_count = 2 /\ page_start > 0
    /\ \E n \in 1..page_start : results[n].multiplier_label = "Million"
    /\ \E n \in (page_start + 1)..Len(results) :
          /\ results[n].source_type = "table"
          /\ results[n].multiplier_label = None
          /\ results[n].section = NoneStr

(***************************************************************************)
(* is_number and parse_number on one string (specification SpecNum)        *)
(***************************************************************************)
MaxNumLen == 4       \* length of the strings given to is_number / parse_number

NumberChars == {"(", ")", ",", ".", " ", "0", "5", "x"}

InitNum ==
    /\ pc = "start" /\ raised = FALSE /\ results = <<>>
    /\ text \in SeqsUpTo(NumberChars, MaxNumLen)
    /\ dollar_spans = <<>> /\ spans = <<>>
    /\ IdleNum /\ IdleTable /\ IdlePages

\* is_number(text)
CallIsNumber ==
    /\ pc = "start"
    /\ accepted' = is_number(text)
    /\ pc' = "checked"
    /\ UNCHANGED <<parsed, raised, results, textVars, tableVars, pageVars>>

\* parse_number(text)
CallParseNumber ==
    /\ pc = "checked"
    /\ parsed' = parse_number(text)
    /\ pc' = "done"
    /\ UNCHANGED <<accepted, raised, results, textVars, tableVars, pageVars>>

NextNum == CallIsNumber \/ CallParseNumber

SpecNum == InitNum /\ [][NextNum]_vars

\* s with the characters that are neither a digit nor a decimal point removed, as a number
Magnitude(s) == ParseFloat(SelectSeq(s, LAMBDA ch : ch \in DigitChars \/ ch = "."))

\* s is written in parentheses
Parenthesized(s) == Strip(s) # <<>> /\ Head(Strip(s)) = "(" /\ Strip(s)[Len(Strip(s))] = ")"

HasDigit(s) == \E i \in 1..Len(s) : s[i] \in DigitChars

\* C8 as stated: parse_number succeeds on every string is_number accepts, is
\* negative exactly when the string is parenthesized and has the magnitude of
\* the string without its thousands separators; it fails on an empty or
\* white-space string.
C8_AcceptedParses ==
    pc = "done" =>
        /\ accepted =>
              /\ parsed # NoFloat
              /\ parsed.neg = Parenthesized(text)
              /\ [parsed EXCEPT !.neg = FALSE] = Magnitude(text)
        /\ Strip(text) = <<>> => parsed = NoFloat

\* C8 amended: the same for every accepted string that holds at least one
\* digit; an accepted string without a digit (only separators) fails to parse.
C8_AcceptedWithDigitParses ==
    pc = "done" =>
        /\ (accepted /\ HasDigit(text)) =>
              /\ parsed # NoFloat
              /\ parsed.neg = Parenthesized(text)
              /\ [parsed EXCEPT !.neg = FALSE] = Magnitude(text)
        /\ (accepted /\ ~HasDigit(text)) => parsed = NoFloat
        /\ Strip(text) = <<>> => parsed = NoFloat

\* C8 witness: a parenthesized number with a separator and a decimal point was parsed
C8_Witness ==
    /\ pc = "done" /\ accepted
    /\ Contains(text, ",") /\ Contains(text, "(") /\ Contains(text, "5")
    /\ parsed = Dec(TRUE, 5, 0)

(***************************************************************************)
(* extract_inline_numbers on one text (specification SpecText)             *)
(***************************************************************************)
MaxChars == 4        \* length of the texts made of single characters
MaxPhrases == 3      \* number of phrases in the texts made of phrases

TextChars == {"$", "3", ",", ".", " ", "m", "x"}

Phrases == {
    <<"$","3"," ">> \o Sample.million,                   \* $3 million
    <<"3",".","5"," ">> \o Sample.million \o <<"s">>,    \* 3.5 millions
    <<"3"," ","m">>,                                \* 3 m
    <<"$","3","M">>,                                \* $3M
    <<"$",","," ">> \o Sample.million,                   \* $, million
    <<"1",",","5"," ","K">>,                        \* 1,5 K
    <<" ">>, <<"\n">>, <<"x">> }

InitText ==
    /\ pc = "start" /\ raised = FALSE /\ results = <<>>
    /\ text \in SeqsUpTo(TextChars, MaxChars)
                  \cup {Flatten(ps) : ps \in SeqsUpTo(Phrases, MaxPhrases)}
    /\ dollar_spans = <<>> /\ spans = <<>>
    /\ IdleNum /\ IdleTable /\ IdlePages

\* DollarPass keeping no spans
DollarPass_NoSpans ==
    /\ pc = "start"
    /\ LET d == DollarLoop(text)
       IN IF d.raised
          THEN /\ raised' = TRUE /\ pc' = "raised"
               /\ UNCHANGED <<results, dollar_spans, spans>>
          ELSE /\ results' = d.found
               /\ dollar_spans' = <<>>
               /\ spans' = d.spans
               /\ pc' = "bare"
               /\ UNCHANGED raised
    /\ UNCHANGED <<text, numVars, tableVars, pageVars>>

\* the loop over the dollar-prefixed matches (lines 159-175)
DollarPass ==
    /\ pc = "start"
    /\ LET d == DollarLoop(text)
       IN IF d.raised
          THEN /\ raised' = TRUE /\ pc' = "raised"
               /\ UNCHANGED <<results, dollar_spans, spans>>
          ELSE /\ results' = d.found
               /\ dollar_spans' = d.spans
               /\ spans' = d.spans
               /\ pc' = "bare"
               /\ UNCHANGED raised
    /\ UNCHANGED <<text, numVars, tableVars, pageVars>>

\* the loop over the bare-worded matches, and the return (lines 177-197)
BarePass ==
    /\ pc = "bare"
    /\ LET b == BareLoop(text, dollar_spans)
       IN IF b.raised
          THEN /\ raised' = TRUE /\ pc' = "raised"
               /\ UNCHANGED <<results, spans>>
          ELSE /\ results' = results \o b.found
               /\ spans' = spans \o b.spans
               /\ pc' = "done"
               /\ UNCHANGED raised
    /\ UNCHANGED <<text, dollar_spans, numVars, tableVars, pageVars>>

NextText == DollarPass \/ BarePass

SpecText == InitText /\ [][NextText]_vars

\* the scale word a record's raw text ends with
ScaleWordOf(raw) ==
    LET cut == {i \in 1..Len(raw) : raw[i] \notin WordChars}
    IN IF cut = {} THEN raw
       ELSE Slice(raw, (CHOOSE i \in cut : \A k \in cut : k <= i) + 1, Len(raw) + 1)

DollarRecord(n) == text[spans[n][1]] = "$"

Abbreviations == {<<"k">>, <<"m">>, <<"b">>, <<"t">>}

\* C6: no record comes from a number followed by white space and a
\* single-letter abbreviation without a dollar sign: every record whose match
\* does not start with "$" ends with a full scale word.
C6_BareFullWordsOnly ==
    pc = "done" =>
        \A n \in 1..Len(results) :
            ~DollarRecord(n) => LowerStr(ScaleWordOf(results[n].raw)) \notin Abbreviations

Overlap(a, b) == a[1] < b[2] /\ b[1] < a[2]

\* C7: no record of a bare-worded match overlaps a dollar-prefixed match, the
\* spans of the records are pairwise disjoint, and a text that is one figure
\* "$<number> <scale>" yields exactly one record.
C7_NoDoubleCounting ==
    pc = "done" =>
        /\ \A n \in 1..Len(results) :
              ~DollarRecord(n) =>
                  \A m \in Range(finditer(INLINE_DOLLAR_PATTERN, text, 1)) : ~Overlap(spans[n], <<m.start, m.end>>)
        /\ \A a, b \in 1..Len(results) : a # b => ~Overlap(spans[a], spans[b])
        /\ (MatchAt(INLINE_DOLLAR_PATTERN, text, 1).ok /\ MatchAt(INLINE_DOLLAR_PATTERN, text, 1).end = Len(text) + 1)
              => Len(results) = 1

\* C7 witness: a figure "$<number> <scale>" whose number and scale word also
\* match the bare pattern yielded its one record
C7_Witness ==
    /\ pc = "done"
    /\ MatchAt(INLINE_DOLLAR_PATTERN, text, 1).ok /\ MatchAt(INLINE_DOLLAR_PATTERN, text, 1).end = Len(text) + 1
    /\ finditer(INLINE_BARE_PATTERN, text, 1) # <<>>
    /\ Len(results) = 1

\* C9: extract_inline_numbers returns for every text; a match whose number
\* cannot be converted raises nothing
C9_NeverRaises == ~raised

(***************************************************************************)
(* extract_from_table on one grid (specification SpecTable)                *)
(***************************************************************************)
MaxRows == 2         \* rows of the grid

\* rows of no cell, of a label cell, and of a label cell and a value cell
TableRows ==
    LET LabelCells == {NoneStr, Sample.Item, Sample.HoursInThousands, Sample.EqTot, <<"7">>}
        ValueCells == {NoneStr, Sample.FY, <<"1","5","0">>, <<"1","5",".","5">>,
                       <<"1","\n","2",".","5">>, Sample.Usd2b}
    IN {<<>>} \cup {<<l>> : l \in LabelCells}
              \cup {<<l, v>> : l \in LabelCells, v \in ValueCells}

Defaults == {[label |-> None, factor |-> One],
             [label |-> "Million", factor |-> Dec(FALSE, 1, 6)]}

InitTable ==
    /\ pc = "start" /\ raised = FALSE /\ results = <<>>
    /\ rows \in SeqsUpTo(TableRows, MaxRows)
    /\ dflt \in Defaults
    /\ headers = NoHeaders /\ row_idx = 0
    /\ IdleNum /\ IdleText /\ IdlePages

\* ResolveHeaders going on to the loops when there are no headers
ResolveHeaders_NoReturn ==
    /\ pc = "start"
    /\ headers' = resolve_column_headers(rows)
    /\ IF headers'.none \/ headers'.list = <<>>
       THEN pc' = "rows" /\ row_idx' = Len(rows) + 1
       ELSE pc' = "rows" /\ row_idx' = TableDataStart(rows)
    /\ UNCHANGED <<rows, dflt, raised, results, numVars, textVars, page_count, page_num,
                   boxes, box_idx, mult_positions, section_name, box_total, page_start,
                   last_call, origin>>

\* headers = resolve_column_headers(rows); without headers the call returns the
\* empty list; else the data rows start (lines 239-251)
ResolveHeaders ==
    /\ pc = "start"
    /\ headers' = resolve_column_headers(rows)
    /\ IF headers'.none \/ headers'.list = <<>>
       THEN pc' = "done" /\ row_idx' = row_idx
       ELSE pc' = "rows" /\ row_idx' = TableDataStart(rows)
    /\ UNCHANGED <<rows, dflt, raised, results, numVars, textVars, page_count, page_num,
                   boxes, box_idx, mult_positions, section_name, box_total, page_start,
                   last_call, origin>>

\* one data row of the first loop (lines 253-300)
ExtractRow ==
    /\ pc = "rows" /\ row_idx <= Len(rows)
    /\ LET out == RowRecords(rows[row_idx], headers.list, dflt, NoneStr, None, NoneStr)
       IN /\ results' = results \o out
          /\ origin' = origin \o [i \in 1..Len(out) |-> row_idx]
    /\ row_idx' = row_idx + 1
    /\ UNCHANGED <<pc, rows, dflt, headers, raised, numVars, textVars, page_count, page_num,
                   boxes, box_idx, mult_positions, section_name, box_total, page_start,
                   last_call>>

\* the loop over every cell, and the return (lines 302-318)
ScanCells ==
    /\ pc = "rows" /\ row_idx > Len(rows)
    /\ LET r == InlineScan(rows, NoneStr, None, NoneStr)
       IN IF r.raised
          THEN /\ raised' = TRUE /\ pc' = "raised"
               /\ UNCHANGED <<results, origin>>
          ELSE /\ results' = results \o r.out
               /\ origin' = origin \o [i \in 1..Len(r.out) |-> 0]
               /\ pc' = "done"
               /\ UNCHANGED raised
    /\ UNCHANGED <<rows, dflt, headers, row_idx, numVars, textVars, page_count, page_num,
                   boxes, box_idx, mult_positions, section_name, box_total, page_start,
                   last_call>>

NextTable == ResolveHeaders \/ ExtractRow \/ ScanCells

SpecTable == InitTable /\ [][NextTable]_vars

\* the scale the label cell (column 0) of the row behind record n declares
RowLabelScale(n) == find_header_multiplier(OrEmpty(rows[origin[n]][1]))

TableRecords == {n \in 1..Len(results) : results[n].source_type = "table"}

\* C4: in a row whose label declares no scale, a sub-value without a decimal
\* point in its raw text is a record with label none, multiplier 1 and
\* adjusted_value = value, whatever the default; a sub-value with a decimal
\* point is a record with exactly the caller's default label and factor.
C4_DecimalHeuristic ==
    pc \in {"rows", "done"} =>
        \A n \in TableRecords :
            RowLabelScale(n) = NoScale =>
                IF Contains(results[n].raw, ".")
                THEN /\ results[n].multiplier_label = dflt.label
                     /\ results[n].multiplier = dflt.factor
                ELSE /\ results[n].multiplier_label = None
                     /\ results[n].multiplier = One
                     /\ results[n].adjusted_value = results[n].value

\* C4 witness: under the default Million, one cell gave a whole number left
\* unscaled and a decimal number scaled by the default
C4_Witness ==
    /\ pc = "done" /\ dflt.label = "Million"
    /\ \E n, m \in TableRecords :
          /\ RowLabelScale(n) = NoScale /\ origin[n] = origin[m]
          /\ ~Contains(results[n].raw, ".") /\ results[n].multiplier_label = None
          /\ Contains(results[m].raw, ".") /\ results[m].multiplier_label = "Million"
          /\ results[m].adjusted_value = Dec(FALSE, 25, 5)

\* C5: when the label cell of a data row holds a scale declaration, every table
\* record of that row has that label and factor, with or without a decimal
\* point in its raw text and whatever the default.
C5_RowLevelOverride ==
    pc \in {"rows", "done"} =>
        \A n \in TableRecords :
            RowLabelScale(n) # NoScale =>
                /\ results[n].multiplier_label = RowLabelScale(n).label
                /\ results[n].multiplier = RowLabelScale(n).factor

\* C5 witness: under the default Million a decimal value of a row labelled
\* "(Hours in Thousands)" was scaled by Thousand
C5_Witness ==
    /\ pc = "done" /\ dflt.label = "Million"
    /\ \E n \in TableRecords :
          /\ rows[origin[n]][1] = Sample.HoursInThousands
          /\ Contains(results[n].raw, ".")
          /\ results[n].multiplier_label = "Thousand"

\* the first row with a cell whose first newline-segment is a recognized number, or 0
FirstNumberRow ==
    LET numeric == {i \in 1..Len(rows) :
                      \E j \in 1..Len(rows[i]) :
                          Truthy(rows[i][j]) /\ is_number(SplitLines(rows[i][j])[1])}
    IN IF numeric = {} THEN 0 ELSE CHOOSE i \in numeric : \A m \in numeric : i <= m

\* C10: with an empty grid, with no row holding a number, or with the first
\* such row being row 0, resolve_column_headers returns none and
\* extract_from_table returns the empty list without failing, also when a cell
\* holds an inline number.
C10_HeaderlessYieldsNothing ==
    (pc # "start" /\ (rows = <<>> \/ FirstNumberRow = 0 \/ FirstNumberRow = 1)) =>
        /\ headers = NoHeaders
        /\ pc = "done"
        /\ results = <<>>
        /\ ~raised

\* C10 witness: a headerless table with an inline number in a cell returned nothing
C10_Witness ==
    /\ pc = "done" /\ headers = NoHeaders /\ results = <<>>
    /\ \E i \in 1..Len(rows) : \E j \in 1..Len(rows[i]) :
          Truthy(rows[i][j]) /\ extract_inline_numbers(rows[i][j]).found # <<>>

(***************************************************************************)
(* mult_for_y on one declaration list (specification SpecMult)             *)
(***************************************************************************)
MaxDecls == 3        \* declarations in the list handed to mult_for_y

\* the (y, label, factor) triples a list is made of
Declarations ==
    {[y |-> y, label |-> MULTIPLIERS[k].label, factor |-> MULTIPLIERS[k].factor] :
        y \in 1..MaxY, k \in {1, 2}}

\* any list of declarations, in any order, before the call
InitMult ==
    /\ pc = "mult_start" /\ raised = FALSE /\ results = <<>>
    /\ IdleNum /\ IdleText /\ IdleTable
    /\ mult_positions \in SeqsUpTo(Declarations, MaxDecls)
    /\ page_count = 0 /\ page_num = 0 /\ boxes = <<>> /\ box_idx = 0
    /\ section_name = NoneStr /\ box_total = 0
    /\ page_start = 0 /\ last_call = NoCall /\ origin = <<>>

\* mult_for_y(mult_positions, y); last_call keeps y (as idx) and the result
CallMultForY ==
    /\ pc = "mult_start"
    /\ \E y \in 0..MaxY :
          LET Called(r) == last_call' = [idx |-> y, label |-> r.label, factor |-> r.factor]
          IN Called(mult_for_y(mult_positions, y))
    /\ pc' = "mult_done"
    /\ UNCHANGED <<raised, results, page_count, page_num, boxes, box_idx, mult_positions,
                   section_name, box_total, page_start, origin, numVars, textVars, tableVars>>

NextMult == CallMultForY

SpecMult == InitMult /\ [][NextMult]_vars

\* the indices of the list whose position is at or above the queried y
Qualifying == {i \in 1..Len(mult_positions) : mult_positions[i].y <= last_call.idx}

SortedAscending ==
    \A i \in 1..(Len(mult_positions) - 1) : mult_positions[i].y <= mult_positions[i + 1].y

\* C11: mult_for_y returns the (label, factor) of the last element of the list
\* whose position is <= y (a position equal to y qualifies), and none when the
\* list is empty or every position is above y; for a list sorted by ascending
\* position that element has the greatest position <= y.
C11_LastAtOrAbove ==
    pc = "mult_done" =>
        LET last == CHOOSE i \in Qualifying \cup {0} : \A k \in Qualifying : k <= i
        IN /\ Qualifying = {} => LastScale = NoScale
           /\ Qualifying # {} =>
                 /\ LastScale = [label |-> mult_positions[last].label,
                                  factor |-> mult_positions[last].factor]
                 /\ SortedAscending =>
                       \A k \in Qualifying : mult_positions[k].y <= mult_positions[last].y

\* C11 witness: an unsorted list with an element below y between two that
\* qualify; the last one sits exactly at y and its scale, not the first
\* qualifying element's, is returned
C11_Witness ==
    /\ pc = "mult_done" /\ Len(mult_positions) = 3 /\ ~SortedAscending
    /\ Qualifying = {1, 3}
    /\ mult_positions[3].y = last_call.idx
    /\ mult_positions[1].label # mult_positions[3].label
    /\ last_call.label = mult_positions[3].label

(***************************************************************************)
(* More properties of extract_from_pages (specification Spec)              *)
(***************************************************************************)
\* the header text is, apart from surrounding blanks, one scale declaration
\* and nothing else: one of the declaration patterns matches all of it
WhollyDeclaration(t) ==
    \E k \in 1..Len(HEADER_UNIT_PATTERNS) :
        LET Whole(u, m) == m.ok /\ m.end = Len(u) + 1
        IN Whole(Strip(t), MatchAt(HEADER_UNIT_PATTERNS[k], Strip(t), 1))

\* the section-header boxes of the current page that come, in vertical order,
\* before the box at index k and name a section
NamingHeaders(k) ==
    {i \in 1..(k - 1) : boxes[i].boxclass = "section-header"
                           /\ ~WhollyDeclaration(get_box_text(boxes[i]))}

\* the section a record of the box at index k is to carry
SectionAt(k) ==
    IF NamingHeaders(k) = {} THEN NoneStr
    ELSE get_box_text(boxes[CHOOSE i \in NamingHeaders(k) : \A m \in NamingHeaders(k) : m <= i])

\* C12: every record carries as section the text of the last section-header
\* box that comes before the box it was produced from (in ascending vertical
\* order on the same page) and whose text is not wholly a scale declaration,
\* or no section when there is no such header; a header that is wholly a
\* scale declaration leaves the section as it was.
C12_SectionTracking ==
    pc \in {"walk", "next_page", "done"} =>
        /\ \A n \in (page_start + 1)..Len(results) : results[n].section = SectionAt(origin[n])
        /\ pc = "walk" => section_name = SectionAt(box_idx)

\* C12 witness: a record of a box that follows a naming header and then a
\* header that is only a declaration; it carries the first header's text
C12_Witness ==
    /\ pc = "walk"
    /\ \E n \in (page_start + 1)..Len(results) :
          /\ origin[n] = 3
          /\ boxes[1].boxclass = "section-header" /\ ~WhollyDeclaration(get_box_text(boxes[1]))
          /\ boxes[2].boxclass = "section-header" /\ WhollyDeclaration(get_box_text(boxes[2]))
          /\ results[n].section = get_box_text(boxes[1])

(***************************************************************************)
(* extract_from_table with any default scale (specification SpecAnyDefault)*)
(***************************************************************************)
\* the default scales a caller can hand to extract_from_table: the parameter
\* is an unchecked int, so a factor below 1 is one of them
CallerDefaults == Defaults \cup {[label |-> "Unit", factor |-> Dec(FALSE, 0, 0)]}

InitAnyDefault ==
    /\ pc = "start" /\ raised = FALSE /\ results = <<>>
    /\ rows \in SeqsUpTo(TableRows, MaxRows)
    /\ dflt \in CallerDefaults
    /\ headers = NoHeaders /\ row_idx = 0
    /\ IdleNum /\ IdleText /\ IdlePages

SpecAnyDefault == InitAnyDefault /\ [][NextTable]_vars

\* x >= 1 for a decimal x = c * 10^e
AtLeastOne(x) == ~x.neg /\ x.c >= 1 /\ (x.e >= 0 \/ x.c >= 10 ^ (0 - x.e))

\* adjusted_value = value * multiplier, and the source_type is that of the
\* loop of extract_from_table the record came from
TableRecordsWellFormed ==
    \A n \in 1..Len(results) :
        /\ results[n].adjusted_value = Times(results[n].value, results[n].multiplier)
        /\ results[n].source_type = IF origin[n] = 0 THEN "table_narrative" ELSE "table"

\* C13: every record of extract_from_table, with any default scale the caller
\* supplies, has multiplier >= 1, adjusted_value = value * multiplier and the
\* source_type of its producer ('table' for a cell value, 'table_narrative'
\* for an inline figure found in a cell).
C13_RecordInvariants ==
    /\ TableRecordsWellFormed
    /\ \A n \in 1..Len(results) : AtLeastOne(results[n].multiplier)

(***************************************************************************)
(* extract_from_pages over numbered pages (specification SpecOrder)        *)
(***************************************************************************)
\* the boxes of these pages: each yields a record
OrderBoxes ==
    {b \in PositionedBoxes :
        (b.boxclass = "text" /\ b.textlines = <<Sample.Usd2b>>) \/ IsPlainDataTable(b)}

\* `for page in pages`: the next page of the input, with the page_number the
\* input gives it and its boxes in the input's order (lines 341-348)
StartNumberedPage ==
    /\ pc = "next_page" /\ page_count < MaxPages
    /\ \E bs \in SeqsUpTo(OrderBoxes, MaxBoxes - box_total) \ {<<>>} :
          /\ boxes' = SortByY0(bs)
          /\ box_total' = box_total + Len(bs)
    /\ page_count' = page_count + 1
    /\ page_num' \in 1..MaxPages
    /\ mult_positions' = <<>>
    /\ section_name' = NoneStr
    /\ page_start' = Len(results)
    /\ last_call' = NoCall
    /\ box_idx' = 1
    /\ pc' = "scan"
    /\ UNCHANGED <<raised, results, origin, numVars, textVars, tableVars>>

NextOrder ==
    \/ StartNumberedPage \/ FindDeclarations
    \/ ProcessText \/ ProcessTable \/ EndPage \/ Return

SpecOrder == Init /\ [][NextOrder]_vars

\* within the page being processed, records come in the vertical order of
\* their boxes
PageInVerticalOrder ==
    pc \in {"walk", "next_page", "done"} =>
        \A n, m \in (page_start + 1)..Len(results) :
            n < m => boxes[origin[n]].y0 <= boxes[origin[m]].y0

\* C14: the records are in document order whatever the order of the pages and
\* boxes in the input: no record of a page with a larger page number comes
\* before a record of a page with a smaller one, and within a page no record
\* of a box with a larger vertical position comes before a record of a box
\* with a smaller one.
C14_DocumentOrder ==
    /\ \A n, m \in 1..Len(results) : n < m => results[n].page <= results[m].page
    /\ PageInVerticalOrder

(***************************************************************************)
(* extract_from_table on rows with sub-values (specification SpecSubRows)  *)
(***************************************************************************)
\* a header row and one data row: a label cell with one, two or three lines
\* and one or two value cells of newline-separated sub-values
SubRowTables ==
    LET Lines(a, b) == a \o <<"\n">> \o b
        Labels == {Sample.Item, Sample.EqTot, Lines(Sample.EqTot, Sample.Item),
                   Lines(Sample.HoursInThousands, Sample.Item)}
        Values == {<<"7">>, Lines(<<"1">>, <<"2",".","5">>),
                   Lines(<<"1">>, Lines(<<",">>, <<"2",".","5">>)),
                   Lines(<<"3">>, Lines(<<" ","4"," ">>, <<"5">>)),
                   Lines(<<"8">>, Lines(<<"x">>, <<"9">>))}
    IN {<< <<Sample.Item, Sample.FY>>, <<l, v>> >> : l \in Labels, v \in Values}
          \cup {<< <<Sample.Item, Sample.FY>>, <<l, v, w>> >> : l \in Labels, v \in Values, w \in Values}

InitSubRows ==
    /\ pc = "start" /\ raised = FALSE /\ results = <<>>
    /\ rows \in SubRowTables
    /\ dflt \in Defaults
    /\ headers = NoHeaders /\ row_idx = 0
    /\ IdleNum /\ IdleText /\ IdlePages

SpecSubRows == InitSubRows /\ [][NextTable]_vars

\* the data rows the first loop is through with
RowsDone == IF pc \in {"rows", "done"} /\ ~headers.none
            THEN TableDataStart(rows)..(row_idx - 1) ELSE {}

\* the table records of row i, in output order
RecordsOfRow(i) ==
    LET idx == {n \in 1..Len(results) : origin[n] = i /\ results[n].source_type = "table"}
    IN [k \in 1..Cardinality(idx) |->
           results[(CHOOSE n \in idx : \A m \in idx : n <= m) + k - 1]]

\* the (position, text) of the sub-values of the cells of row i, left to right
\* and top to bottom, with surrounding blanks removed
SubValuesOfRow(i) ==
    Flatten([k \in 1..(Len(rows[i]) - 1) |->
                IF ~Truthy(rows[i][k + 1]) THEN <<>>
                ELSE [vi \in 1..Len(SplitLines(rows[i][k + 1])) |->
                         [vi |-> vi, raw |-> Strip(SplitLines(rows[i][k + 1])[vi])]]])

Recognized(v) == is_number(v.raw)
RecognizedWithDigit(v) == is_number(v.raw) /\ HasDigit(v.raw)

\* the label cell of row i holds a newline
LabelHasLines(i) == rows[i] # <<>> /\ Contains(OrEmpty(rows[i][1]), "\n")

\* the label cell of row i with newlines replaced by spaces, trimmed
CombinedLabel(i) == Strip(NewlinesToSpaces(OrEmpty(rows[i][1])))

\* every record of row i carries the combined row label
SharesCombinedLabel(i) ==
    \A k \in 1..Len(RecordsOfRow(i)) : RecordsOfRow(i)[k].row_label = CombinedLabel(i)

\* C15 as stated: the sub-values of a data row that is_number recognizes give
\* one table record each, in sub-value order, and when the label cell holds
\* newlines every one of them carries the same combined row label.
C15_OneRecordPerRecognized ==
    \A i \in RowsDone :
        /\ [k \in 1..Len(RecordsOfRow(i)) |-> RecordsOfRow(i)[k].raw]
              = [k \in 1..Len(SelectSeq(SubValuesOfRow(i), Recognized)) |->
                    SelectSeq(SubValuesOfRow(i), Recognized)[k].raw]
        /\ LabelHasLines(i) => SharesCombinedLabel(i)

\* C15, for the sub-values with a digit: the sub-values of a data row that
\* is_number recognizes and that hold at least one digit give one table record
\* each, in sub-value order (a recognized sub-value without a digit, such as
\* ",", gives none), and when the label cell holds newlines every one of the
\* records carries the same combined row label (newlines replaced by spaces,
\* trimmed).
C15_OneRecordPerNumber ==
    \A i \in RowsDone :
        /\ [k \in 1..Len(RecordsOfRow(i)) |-> RecordsOfRow(i)[k].raw]
              = [k \in 1..Len(SelectSeq(SubValuesOfRow(i), RecognizedWithDigit)) |->
                    SelectSeq(SubValuesOfRow(i), RecognizedWithDigit)[k].raw]
        /\ LabelHasLines(i) => SharesCombinedLabel(i)

\* C15 witness: a cell of three numbers under a two-line label gave three
\* records in order, each with the combined label "Eq Tot"
C15_Witness ==
    /\ pc = "done" /\ Len(rows[2]) = 2 /\ rows[2][1] = Sample.EqTot
    /\ [k \in 1..Len(RecordsOfRow(2)) |-> RecordsOfRow(2)[k].raw] = << <<"3">>, <<"4">>, <<"5">> >>
    /\ \A k \in 1..3 : RecordsOfRow(2)[k].row_label = <<"E","q"," ","T","o","t">>

(***************************************************************************)
(* Boxes of other classes (specification Spec)                             *)
(***************************************************************************)
Handled(b) == b.boxclass \in {"text", "section-header", "table"}

\* the declarations of the banner tables before index j, in walk order
BannerDeclarations(j) ==
    Flatten([i \in 1..(j - 1) |->
                IF IsBanner(boxes[i])
                THEN <<[y |-> boxes[i].y0,
                        label |-> TableMult(boxes[i].table.extract).label,
                        factor |-> TableMult(boxes[i].table.extract).factor]>>
                ELSE <<>>])

\* the declaration list the table at index j would be extracted with if the
\* page held only its text, section-header and table boxes: their running-text
\* declarations, then the banners before j
DeclarationsWithoutIgnored(j) ==
    ScanDeclarations(SelectSeq(boxes, Handled)) \o BannerDeclarations(j)

\* C16: a box whose class is none of text, section-header and table is
\* ignored: the scale every table of the page is extracted with is the one it
\* would be extracted with if the page did not hold such boxes.
C16_IgnoredClassesChangeNothing ==
    (pc \in {"walk", "next_page", "done"} /\ last_call.idx # 0) =>
        LastScale = TableScale(boxes[last_call.idx], DeclarationsWithoutIgnored(last_call.idx))

\* the label the sub-value at position vi of row i is to carry by positional
\* alignment: the vi-th line of the original label cell, the last line for a
\* sub-value beyond the lines, the single row label when the cell has no newline
AlignedLabel(i, vi) ==
    LET Aligned(lines) == Strip(lines[Min(vi, Len(lines))])
    IN IF LabelHasLines(i) THEN Aligned(SplitLines(OrEmpty(rows[i][1])))
       ELSE CombinedLabel(i)

\* C17: sub-values are aligned with sub-labels by position: when the original
\* label cell holds newlines the i-th sub-value's record has as row_label the
\* i-th newline-separated line of that cell, sub-values beyond the lines reuse
\* the last line, and without a newline all records share the single row label.
C17_SubLabelAlignment ==
    \A i \in RowsDone :
        LET Emitted(numbers) ==
                \A k \in 1..Min(Len(numbers), Len(RecordsOfRow(i))) :
                    RecordsOfRow(i)[k].row_label = AlignedLabel(i, numbers[k].vi)
        IN Emitted(SelectSeq(SubValuesOfRow(i), RecognizedWithDigit))

(***************************************************************************)
(* resolve_column_headers on two header rows (specification SpecHeaders)   *)
(***************************************************************************)
MaxCols == 3         \* cells of a header row

\* two header rows of absent, blank and text cells (one text with a newline)
\* above one data row, which is narrower or wider than the header rows
HeaderTables ==
    LET HeaderCells == {NoneStr, <<" ">>, Sample.FY, Sample.EqTot}
        DataRow == {<<Sample.Jets, Sample.N5p5>>,
                    <<Sample.Jets, Sample.N5p5, NoneStr, Sample.N5p5>>}
    IN {<<a, b, d>> : a \in SeqsUpTo(HeaderCells, MaxCols),
                      b \in SeqsUpTo(HeaderCells, MaxCols), d \in DataRow}

InitHeaders ==
    /\ pc = "start" /\ raised = FALSE /\ results = <<>>
    /\ rows \in HeaderTables
    /\ dflt = [label |-> None, factor |-> One]
    /\ headers = NoHeaders /\ row_idx = 0
    /\ IdleNum /\ IdleText /\ IdlePages

SpecHeaders == InitHeaders /\ [][NextTable]_vars

\* the width of the grid: the greatest row length
GridWidth == CHOOSE w \in {Len(rows[i]) : i \in 1..Len(rows)} : \A i \in 1..Len(rows) : Len(rows[i]) <= w

\* the trimmed text of cell j of header row i, "" for a cell that is absent,
\* empty or blank
OwnText(i, j) == IF j <= Len(rows[i]) /\ HasText(rows[i][j]) THEN Strip(rows[i][j]) ELSE <<>>

\* cell j of header row i after the forward fill: its own text, or that of the
\* nearest cell to its left with text, or "" when there is none
Inherited(i, j) ==
    LET withText == {k \in 1..j : OwnText(i, k) # <<>>}
    IN IF withText = {} THEN <<>>
       ELSE OwnText(i, CHOOSE k \in withText : \A m \in withText : m <= k)

\* the header of column j (1-based) over the header rows 1..n: the distinct
\* non-empty filled values from top to bottom joined with " / ", else col_<j-1>
MergedHeader(n, j) ==
    LET first == {i \in 1..n : Inherited(i, j) # <<>>
                                 /\ \A k \in 1..(i - 1) : Inherited(k, j) # Inherited(i, j)}
        Joined(parts) == IF parts = <<>> THEN ColName(j - 1) ELSE JoinSlash(parts)
    IN Joined(Flatten([i \in 1..n |-> IF i \in first THEN <<Inherited(i, j)>> ELSE <<>>]))

\* C18: with two or more header rows, each row is padded to the column count
\* and forward-filled from left to right (an absent, empty or blank cell takes
\* the nearest cell with text to its left in the same row, or stays empty), and
\* the header of column j is the distinct non-empty values of column j over
\* the header rows, top to bottom, joined with " / ", or "col_<j>" when the
\* column has none; the rows handed in are not modified.
C18_MultiRowHeaderMerge ==
    (pc # "start" /\ FirstNumberRow >= 3) =>
        /\ ~headers.none
        /\ headers.list = [j \in 1..GridWidth |-> MergedHeader(FirstNumberRow - 1, j)]

(***************************************************************************)
(* The length of the header list (specification SpecTable)                 *)
(***************************************************************************)
\* C19: whenever resolve_column_headers returns a list, the list has one entry
\* per column: its length is the column count, the greatest row width of the
\* grid, also when the header row is narrower than a data row.
C19_HeaderLengthIsColumnCount ==
    (pc # "start" /\ ~headers.none) => Len(headers.list) = GridWidth

(***************************************************************************)
(* Scales embedded in data tables (specification Spec)                     *)
(***************************************************************************)
\* a data table with a scale declaration in its own cells
HasEmbeddedScale(b) == IsGrid(b) /\ HasData(b.table.extract) /\ TableMult(b.table.extract) # NoScale

====
